---- MODULE Spec2Model ----
(***************************************************************************)
(* Model of __scan.py: a recursive walk of the tree under '.', which       *)
(* prints the path of every regular file, outside a fixed set of          *)
(* extensions, whose strict UTF-8 decoding contains U+FFFD.               *)
(*                                                                         *)
(* A path is a sequence of names, a name is a sequence of one-character    *)
(* strings, file content is a sequence of bytes (0..255) and decoded text  *)
(* is a sequence of code points.                                           *)
(***************************************************************************)
EXTENDS Integers, Sequences, FiniteSets, TLC

VARIABLES fs, pending, cur, text, pc, output, readLog, run, out1

vars == <<fs, pending, cur, text, pc, output, readLog, run, out1>>

(* Deepest level (number of path components) at which the tree has a file. *)
MaxDepth == 3

(* Largest number of files in the tree. *)
MaxFiles == 2

Range(s) == {s[i] : i \in 1..Len(s)}

---------------------------------------------------------------------------
(* File names and extensions *)

DirName == <<"d">>

(* line 4: the set literal of skipped suffixes *)
SkipSet ==
  { <<".","p","n","g">>, <<".","j","p","g">>, <<".","j","p","e","g">>,
    <<".","g","i","f">>, <<".","p","d","f">>, <<".","z","i","p">>,
    <<".","i","c","o">>, <<".","w","o","f","f">>,
    <<".","w","o","f","f","2">>, <<".","t","t","f">> }

(* A name under every skipped extension, and three names that are not      *)
(* skipped: a plain one, one that differs in case only, and a dot-file     *)
(* whose whole name is a skipped extension.                                *)
FileNames ==
  {<<"a">> \o ext : ext \in SkipSet}
    \cup { <<"b","a","d",".","t","x","t">>,
           <<"a",".","P","N","G">>,
           <<".","p","n","g">> }

(* str.rfind('.'), as a 1-based index; 0 when there is no dot *)
RFindDot(name) ==
  LET dots == {i \in 1..Len(name) : name[i] = "."}
  IN IF dots = {} THEN 0 ELSE CHOOSE i \in dots : \A j \in dots : j <= i

(* A plausible slip: the suffix without its leading dot. *)
SuffixNoDot(name) ==
  LET i == RFindDot(name)
  IN IF 1 < i /\ i < Len(name) THEN SubSeq(name, i + 1, Len(name)) ELSE <<>>

(* PurePath.suffix: the part of the final component from its last dot,    *)
(* empty when the dot is the first or the last character of the name.     *)
Suffix(name) ==
  LET i == RFindDot(name)
  IN IF 1 < i /\ i < Len(name) THEN SubSeq(name, i, Len(name)) ELSE <<>>

---------------------------------------------------------------------------
(* Strict UTF-8 decoding, as read_text(encoding='utf-8') performs it *)

FFFD == 65533

(* number of bytes of the sequence a lead byte starts; 0: not a lead byte *)
SeqLen(b) ==
  IF b < 128 THEN 1
  ELSE IF b >= 194 /\ b <= 223 THEN 2
  ELSE IF b >= 224 /\ b <= 239 THEN 3
  ELSE IF b >= 240 /\ b <= 244 THEN 4
  ELSE 0

IsCont(b) == b >= 128 /\ b <= 191

(* the second byte excludes overlong forms, surrogates and > U+10FFFF *)
SecondOK(lead, b) ==
  IF lead = 224 THEN b >= 160 /\ b <= 191
  ELSE IF lead = 237 THEN b >= 128 /\ b <= 159
  ELSE IF lead = 240 THEN b >= 144 /\ b <= 191
  ELSE IF lead = 244 THEN b >= 128 /\ b <= 143
  ELSE IsCont(b)

WellFormedAt(b, i, n) ==
  /\ n > 0
  /\ i + n - 1 <= Len(b)
  /\ n >= 2 => SecondOK(b[i], b[i + 1])
  /\ \A k \in 2..(n - 1) : IsCont(b[i + k])

CodePoint(b, i, n) ==
  IF n = 1 THEN b[i]
  ELSE IF n = 2 THEN (b[i] - 192) * 64 + (b[i + 1] - 128)
  ELSE IF n = 3 THEN (b[i] - 224) * 4096 + (b[i + 1] - 128) * 64
                     + (b[i + 2] - 128)
  ELSE (b[i] - 240) * 262144 + (b[i + 1] - 128) * 4096
       + (b[i + 2] - 128) * 64 + (b[i + 3] - 128)

DecodeError == [ok |-> FALSE, text |-> <<>>]

RECURSIVE DecodeFrom(_, _)
DecodeFrom(b, i) ==
  IF i > Len(b) THEN [ok |-> TRUE, text |-> <<>>]
  ELSE LET n == SeqLen(b[i])
       IN IF ~WellFormedAt(b, i, n) THEN DecodeError
          ELSE LET rest == DecodeFrom(b, i + n)
               IN IF rest.ok
                  THEN [ok |-> TRUE, text |-> <<CodePoint(b, i, n)>> \o rest.text]
                  ELSE DecodeError

(* A plausible slip: errors='replace', which substitutes U+FFFD for what  *)
(* does not decode instead of raising.                                     *)
RECURSIVE ReplaceFrom(_, _)
ReplaceFrom(b, i) ==
  IF i > Len(b) THEN <<>>
  ELSE LET n == SeqLen(b[i])
       IN IF WellFormedAt(b, i, n)
          THEN <<CodePoint(b, i, n)>> \o ReplaceFrom(b, i + n)
          ELSE <<FFFD>> \o ReplaceFrom(b, i + 1)

DecodeLossy(b) == [ok |-> TRUE, text |-> ReplaceFrom(b, 1)]

(* A plausible slip: encoding='ascii', which refuses every byte above 127 *)
DecodeAscii(b) ==
  IF \A i \in 1..Len(b) : b[i] < 128
  THEN [ok |-> TRUE, text |-> b]
  ELSE DecodeError

(* bytes.decode('utf-8') in strict mode: the text, or a UnicodeDecodeError *)
Decode(b) == DecodeFrom(b, 1)

---------------------------------------------------------------------------
(* The directory tree *)

(* "hello world" *)
HelloWorld == <<104,101,108,108,111,32,119,111,114,108,100>>

CleanSamples == { <<>>, HelloWorld, <<195,169>> }

FFFDSamples == { <<239,191,189>>, <<104,239,191,189,105>> }

InvalidSamples == { <<255,254>>, <<239,191>> }

Contents == CleanSamples \cup FFFDSamples \cup InvalidSamples

(* "ok": stat and read succeed; "enoent": the entry was listed but stat    *)
(* finds nothing (removed since, or a dangling link); "readerr": stat      *)
(* succeeds and opening or reading raises OSError (permission denied, I/O  *)
(* error, removed after the stat).                                         *)
Access == {"ok", "enoent", "readerr"}

(* The bytes a file may hold.  The script never sees the bytes of an entry *)
(* it cannot stat or read: one value stands for them.                      *)
ContentsFor(a) ==
  IF a = "ok" THEN Contents
  ELSE IF a = "readerr" THEN {<<239,191,189>>}
  ELSE {<<>>}

DirPath(k) == [i \in 1..k |-> DirName]

FilePath(level, name) == DirPath(level - 1) \o <<name>>

DirEntry(s) == [kind |-> "dir", content |-> <<>>, access |-> "ok", searchable |-> s]

FileEntry(c, a) == [kind |-> "file", content |-> c, access |-> a, searchable |-> FALSE]

(* A chain of n directories d, d/d, ... with search permission s[k] on the *)
(* k-th, and a copy of one file (name, content, access) at each of levels. *)
MkTree(n, s, name, c, a, levels) ==
  LET dirs  == {DirPath(k) : k \in 1..n}
      files == {FilePath(l, name) : l \in levels}
  IN [p \in dirs \cup files |->
        IF p \in dirs THEN DirEntry(s[Len(p)]) ELSE FileEntry(c, a)]

Name(p) == p[Len(p)]

Prefix(p, k) == SubSeq(p, 1, k)

(* every directory above p can be searched: stat(p) and open(p) get to p *)
Reachable(tree, p) == \A k \in 1..(Len(p) - 1) : tree[Prefix(p, k)].searchable

(* A plausible slip: glob('*'), the entries of the root directory only. *)
glob(tree) == {p \in DOMAIN tree : Len(p) = 1}

(* Path.rglob('*'): every entry of every directory that can be listed;     *)
(* a directory that cannot be opened is passed over silently.              *)
rglob(tree) ==
  {p \in DOMAIN tree : \A k \in 1..(Len(p) - 2) : tree[Prefix(p, k)].searchable}

IsRegular(tree, p) == tree[p].kind = "file" /\ tree[p].access # "enoent"

NoPath == <<>>

Init ==
  /\ \E n \in 0..(MaxDepth - 1) :
       \E s \in [1..n -> BOOLEAN] :
         \E name \in FileNames, a \in Access :
           \E c \in ContentsFor(a), levels \in SUBSET (1..(n + 1)) :
             /\ Cardinality(levels) <= MaxFiles
             /\ fs = MkTree(n, s, name, c, a, levels)
  /\ pending = rglob(fs)
  /\ cur = NoPath
  /\ text = <<>>
  /\ pc = "iter"
  /\ output = <<>>
  /\ readLog = {}
  /\ run = 1
  /\ out1 = <<>>

---------------------------------------------------------------------------
(* The script, line by line *)

(* line 3: the iterator yields the next entry, in no particular order *)
NextEntry ==
  /\ pc = "iter"
  /\ \E p \in pending :
       /\ cur' = p
       /\ pending' = pending \ {p}
  /\ pc' = "test"
  /\ UNCHANGED <<fs, text, output, readLog, run, out1>>

(* line 3: the iterator is exhausted and the script ends *)
Exhausted ==
  /\ pc = "iter"
  /\ pending = {}
  /\ pc' = "done"
  /\ cur' = NoPath
  /\ UNCHANGED <<fs, pending, text, output, readLog, run, out1>>

(* line 4: is_file() when stat is refused (EACCES); the error is not one   *)
(* that is_file() ignores, and the call is outside the try block.          *)
IsFileRaises ==
  /\ pc = "test"
  /\ ~Reachable(fs, cur)
  /\ pc' = "aborted"
  /\ UNCHANGED <<fs, pending, cur, text, output, readLog, run, out1>>

(* line 4: is_file() when stat is refused, on an interpreter whose         *)
(* is_file() returns False for every OSError.                              *)
IsFileDeniedFalse ==
  /\ pc = "test"
  /\ ~Reachable(fs, cur)
  /\ pc' = "iter"
  /\ UNCHANGED <<fs, pending, cur, text, output, readLog, run, out1>>

(* line 4: the regular-file test and the suffix test *)
TestEntry ==
  /\ pc = "test"
  /\ Reachable(fs, cur)
  /\ pc' = IF IsRegular(fs, cur) /\ Suffix(Name(cur)) \notin SkipSet
           THEN "read" ELSE "iter"
  /\ UNCHANGED <<fs, pending, cur, text, output, readLog, run, out1>>

(* A plausible slip: except OSError, which lets UnicodeDecodeError through *)
ReadTextOSErrorOnly ==
  /\ pc = "read"
  /\ IF fs[cur].access = "readerr"
     THEN /\ pc' = "iter"
          /\ UNCHANGED <<text, readLog>>
     ELSE /\ readLog' = readLog \cup {cur}
          /\ LET d == Decode(fs[cur].content)
             IN IF d.ok THEN pc' = "check" /\ text' = d.text
                        ELSE pc' = "aborted" /\ text' = text
  /\ UNCHANGED <<fs, pending, cur, output, run, out1>>

(* A plausible slip: the file opened for update and truncated *)
ReadTextTruncating ==
  /\ pc = "read"
  /\ IF fs[cur].access = "readerr"
     THEN /\ pc' = "iter"
          /\ UNCHANGED <<text, readLog, fs>>
     ELSE /\ readLog' = readLog \cup {cur}
          /\ fs' = [fs EXCEPT ![cur].content = <<>>]
          /\ LET d == Decode(fs[cur].content)
             IN IF d.ok THEN pc' = "check" /\ text' = d.text
                        ELSE pc' = "iter" /\ text' = text
  /\ UNCHANGED <<pending, cur, output, run, out1>>

(* lines 5-8: read_text in a try block; any Exception goes on to the next  *)
(* entry                                                                   *)
ReadText ==
  /\ pc = "read"
  /\ IF fs[cur].access = "readerr"
     THEN /\ pc' = "iter"
          /\ UNCHANGED <<text, readLog>>
     ELSE /\ readLog' = readLog \cup {cur}
          /\ LET d == Decode(fs[cur].content)
             IN IF d.ok THEN pc' = "check" /\ text' = d.text
                        ELSE pc' = "iter" /\ text' = text
  /\ UNCHANGED <<fs, pending, cur, output, run, out1>>

(* A plausible slip: the test inverted *)
CheckPrintInverted ==
  /\ pc = "check"
  /\ output' = IF FFFD \notin Range(text) THEN Append(output, cur) ELSE output
  /\ pc' = "iter"
  /\ UNCHANGED <<fs, pending, cur, text, readLog, run, out1>>

(* lines 9-10: print the path when the text contains U+FFFD *)
CheckPrint ==
  /\ pc = "check"
  /\ output' = IF FFFD \in Range(text) THEN Append(output, cur) ELSE output
  /\ pc' = "iter"
  /\ UNCHANGED <<fs, pending, cur, text, readLog, run, out1>>

(* the script has ended, normally or on an uncaught exception, and is run  *)
(* a second time over the same tree                                        *)
RunAgain ==
  /\ pc \in {"done", "aborted"}
  /\ run = 1
  /\ run' = 2
  /\ out1' = output
  /\ output' = <<>>
  /\ readLog' = {}
  /\ pending' = rglob(fs)
  /\ cur' = NoPath
  /\ text' = <<>>
  /\ pc' = "iter"
  /\ UNCHANGED fs

Next ==
  \/ NextEntry
  \/ Exhausted
  \/ IsFileRaises
  \/ IsFileDeniedFalse
  \/ TestEntry
  \/ ReadText
  \/ CheckPrint

(* one run of the script *)
Spec == Init /\ [][Next]_vars

NextTwice ==
  \/ Next
  \/ RunAgain

(* two runs of the script, one after the other *)
SpecTwice == Init /\ [][NextTwice]_vars

---------------------------------------------------------------------------
(* Properties.  They describe files by their names and bytes, not through  *)
(* Suffix and Decode, so that they constrain those operators.              *)

Files == {p \in DOMAIN fs : fs[p].kind = "file"}

Printed == Range(output)

EndsWith(name, ext) ==
  /\ Len(name) > Len(ext)
  /\ SubSeq(name, Len(name) - Len(ext) + 1, Len(name)) = ext

(* the name is a non-empty stem followed by one of the ten skipped         *)
(* extensions, compared case-sensitively                                   *)
HasSkipExt(p) == \E ext \in SkipSet : EndsWith(Name(p), ext)

(* stat and open both succeed on p *)
Readable(p) == fs[p].access = "ok" /\ Reachable(fs, p)

Finished == pc \in {"done", "aborted"}

(* C1: a file whose extension is in the skip-set is never printed and its  *)
(* content is never read, whatever its bytes are: every file that is       *)
(* printed, has been read or is about to be read has another extension.    *)
C1_SkipNeverReadNorPrinted ==
  \A p \in Files :
    (p \in Printed \/ p \in readLog \/ (pc \in {"read", "check"} /\ cur = p))
      => ~HasSkipExt(p)

C1_Witness ==
  /\ pc = "done"
  /\ \E p \in Files :
       /\ HasSkipExt(p)
       /\ Readable(p)
       /\ fs[p].content \in FFFDSamples

(* C2: when the traversal completes, every readable regular file outside   *)
(* the skip-set whose bytes are valid UTF-8 containing U+FFFD has been     *)
(* printed.                                                                *)
C2_PositiveDetection ==
  pc = "done" =>
    \A p \in Files :
      (~HasSkipExt(p) /\ Readable(p) /\ fs[p].content \in FFFDSamples)
        => p \in Printed

C2_Witness ==
  /\ pc = "done"
  /\ \E p \in Files :
       /\ ~HasSkipExt(p)
       /\ fs[p].content = <<104,239,191,189,105>>
       /\ p \in Printed

(* C3, as stated: a readable regular file outside the skip-set whose bytes *)
(* are invalid UTF-8 (bad.txt holding FF FE) is in the output of the scan. *)
C3_InvalidIsPrinted ==
  pc = "done" =>
    \A p \in Files :
      (~HasSkipExt(p) /\ Readable(p) /\ fs[p].content \in InvalidSamples)
        => p \in Printed

(* C3, amended: a file whose bytes are invalid UTF-8 (bad.txt holding      *)
(* FF FE) is never in the output of the scan.                              *)
C3_InvalidNeverPrinted ==
  \A p \in Files : fs[p].content \in InvalidSamples => p \notin Printed

C3_Witness ==
  /\ pc = "done"
  /\ \E p \in Files :
       /\ Name(p) = <<"b","a","d",".","t","x","t">>
       /\ fs[p].content = <<255,254>>
       /\ p \in readLog

(* C4: when read_text fails to decode a file, the step prints nothing,     *)
(* surfaces no error and returns to the loop with the entries still to     *)
(* come untouched.                                                         *)
C4_DecodeFailureSwallowed ==
  [][ (pc = "read" /\ fs[cur].access = "ok"
         /\ fs[cur].content \in InvalidSamples)
        => (pc' = "iter" /\ output' = output /\ pending' = pending) ]_vars

C4_Witness ==
  /\ pc = "done"
  /\ Cardinality(readLog) >= 2
  /\ \A p \in readLog : fs[p].content \in InvalidSamples

(* C5: no error on a single entry, the regular-file test included, aborts  *)
(* the run.                                                                *)
C5_NoAbort == pc # "aborted"

(* C6: a file whose bytes are well-formed UTF-8 without U+FFFD is never    *)
(* printed, whatever its extension or its depth.                           *)
C6_CleanNeverPrinted ==
  \A p \in Files : fs[p].content \in CleanSamples => p \notin Printed

C6_Witness ==
  /\ pc = "done"
  /\ \E p \in Files :
       /\ fs[p].content = HelloWorld
       /\ ~HasSkipExt(p)
       /\ Len(p) >= 2
       /\ p \in readLog

C8_FilesystemUnchanged == [][fs' = fs]_vars

C8_Witness ==
  /\ pc = "done"
  /\ readLog # {}
  /\ output # <<>>

C10_NoFilesCleanExit ==
  Files = {} => (pc # "aborted" /\ output = <<>>)

====
